---- MODULE Spec2Model ----
(***************************************************************************)
(* unifi-timelapse (main.go): merge the video segments of one camera into  *)
(* a single sped-up file with ffmpeg.  The module models main() as a state *)
(* machine over the filesystem and the child process, and the pure helpers *)
(* (sanitizeFilename, the manifest line encoding, extractDateFromPath,     *)
(* sort.Slice) as operators over character strings.                        *)
(***************************************************************************)
EXTENDS Integers, Sequences, FiniteSets, TLC

VARIABLES
    pc,             \* position of main(): an Orchestrator state
    cameraName,     \* *cameraName, the -camera flag
    speed,          \* *speed, the -speed flag (a float64, see Float64Samples)
    outputFile,     \* outputFile of main()
    discovered,     \* what findVideoFiles returned (kept for the claims)
    files,          \* the files slice of main(), sorted in place
    stat,           \* the filesystem's answer to os.Stat for each found file
    manifestExists, \* whether inputs.txt exists in the working directory
    manifestLines,  \* the lines inputs.txt holds
    deferred,       \* whether main() has registered its deferred os.Remove
    exitCode,       \* the process exit status, Running while it runs
    stderr,         \* the messages written to os.Stderr
    hist,           \* what the run has done so far (history, for the claims)
    arg,            \* argument of the pure function under test
    ret             \* its result

runVars == <<pc, cameraName, speed, outputFile, discovered, files, stat,
             manifestExists, manifestLines, deferred, exitCode, stderr, hist>>
pureVars == <<arg, ret>>
vars == <<pc, cameraName, speed, outputFile, discovered, files, stat,
          manifestExists, manifestLines, deferred, exitCode, stderr, hist,
          arg, ret>>

--------------------------------------------------------------------------
(* Bounds of the model.                                                    *)

\* longest camera name handed to sanitizeFilename on its own
MaxNameLen == 3
\* longest path handed to the manifest line encoding on its own
MaxPathLen == 4
\* most directory entries a modelled videos directory holds
MaxEntries == 3

--------------------------------------------------------------------------
(* Strings.  A Go string is a TLA+ string; s[i] is SubSeq(s, i, i).        *)

Char(s, i) == SubSeq(s, i, i)

RECURSIVE StringsUpTo(_, _)
\* every string over alphabet of length at most n
StringsUpTo(alphabet, n) ==
    IF n = 0 THEN {""}
    ELSE LET shorter == StringsUpTo(alphabet, n - 1)
         IN  shorter \cup {s \o c : s \in shorter, c \in alphabet}

HasPrefix(s, prefix) ==
    /\ Len(s) >= Len(prefix)
    /\ SubSeq(s, 1, Len(prefix)) = prefix

HasSuffix(s, suffix) ==
    /\ Len(s) >= Len(suffix)
    /\ SubSeq(s, Len(s) - Len(suffix) + 1, Len(s)) = suffix

RECURSIVE ReplaceAll(_, _, _)
\* strings.ReplaceAll for a non-empty old: leftmost non-overlapping matches
ReplaceAll(s, old, new) ==
    IF Len(s) < Len(old) THEN s
    ELSE IF SubSeq(s, 1, Len(old)) = old
         THEN new \o ReplaceAll(SubSeq(s, Len(old) + 1, Len(s)), old, new)
         ELSE Char(s, 1) \o ReplaceAll(SubSeq(s, 2, Len(s)), old, new)

\* unicode.IsSpace restricted to the characters a TLA+ string can hold
IsSpace(c) == c \in {" ", "\t", "\n", "\r", "\f"}

RECURSIVE TrimLeft(_)
TrimLeft(s) ==
    IF Len(s) > 0 /\ IsSpace(Char(s, 1)) THEN TrimLeft(SubSeq(s, 2, Len(s)))
    ELSE s

RECURSIVE TrimRight(_)
TrimRight(s) ==
    IF Len(s) > 0 /\ IsSpace(Char(s, Len(s)))
    THEN TrimRight(SubSeq(s, 1, Len(s) - 1))
    ELSE s

TrimSpace(s) == TrimRight(TrimLeft(s))

Contains(s, c) == \E i \in 1..Len(s) : Char(s, i) = c

--------------------------------------------------------------------------
(* sanitizeFilename                                                        *)

\* the invalid slice of sanitizeFilename, in its order
invalid == <<"/", "\\", ":", "*", "?", "\"", "<", ">", "|", " ">>

\* a sanitizeFilename whose list lacks the trailing " " entry
invalidNoSpace == <<"/", "\\", ":", "*", "?", "\"", "<", ">", "|">>

RECURSIVE replaceEach(_, _, _)
\* the range loop of sanitizeFilename from entry k on
replaceEach(result, chars, k) ==
    IF k > Len(chars) THEN result
    ELSE replaceEach(ReplaceAll(result, chars[k], "_"), chars, k + 1)

sanitizeFilenameNoSpace(name) == TrimSpace(replaceEach(name, invalidNoSpace, 1))

sanitizeFilename(name) == TrimSpace(replaceEach(name, invalid, 1))

--------------------------------------------------------------------------
(* createInputsFile: the text of one manifest line                         *)

\* normalized := strings.ReplaceAll(file, "\\", "/")
normalize(file) == ReplaceAll(file, "\\", "/")

\* an escape that only puts a backslash before the quote
escapeBackslashOnly(normalized) == ReplaceAll(normalized, "'", "\\'")

\* escaped := strings.ReplaceAll(normalized, "'", "'\\''")
escape(normalized) == ReplaceAll(normalized, "'", "'\\''")

\* fmt.Fprintf(f, "file '%s'\n", escaped)
manifestLine(file) == "file '" \o escape(normalize(file)) \o "'\n"

\* a reader of the manifest: the text between the outer quotes, with each
\* '\'' turned back into '
decodeLine(line) ==
    ReplaceAll(SubSeq(line, Len("file '") + 1, Len(line) - Len("'\n")),
               "'\\''", "'")

--------------------------------------------------------------------------
(* time.Time: an instant, modelled as <<days, seconds>> since              *)
(* 0001-01-01 00:00:00 UTC (seconds alone overflow TLC's integers).        *)

\* time.Time{}, the zero instant
ZeroTime == <<0, 0>>

\* t.Before(u)
Before(t, u) == t[1] < u[1] \/ (t[1] = u[1] /\ t[2] < u[2])

isLeap(year) == year % 4 = 0 /\ (year % 100 # 0 \/ year % 400 = 0)

\* days of the year before the first of each month, in a common year
daysBefore == <<0, 31, 59, 90, 120, 151, 181, 212, 243, 273, 304, 334, 365>>

daysIn(month, year) ==
    IF month = 2 /\ isLeap(year) THEN 29
    ELSE daysBefore[month + 1] - daysBefore[month]

\* time.Date(year, month, day, hour, min, sec, 0, time.UTC) for valid fields
Date(year, month, day, hour, min, sec) ==
    LET y == year - 1
        d == 365 * y + (y \div 4) - (y \div 100) + (y \div 400)
             + daysBefore[month]
             + (IF month > 2 /\ isLeap(year) THEN 1 ELSE 0)
             + (day - 1)
    IN  <<d, hour * 3600 + min * 60 + sec>>

--------------------------------------------------------------------------
(* time.Parse(dateTimeFormat, value)                                       *)

IsDigit(c) == c \in {"0", "1", "2", "3", "4", "5", "6", "7", "8", "9"}

At(s, i) == IF i >= 1 /\ i <= Len(s) THEN Char(s, i) ELSE ""

DigitValue(c) == CHOOSE v \in 0..9 : Char("0123456789", v + 1) = c

RECURSIVE atoi(_)
atoi(s) ==
    IF Len(s) = 0 THEN 0
    ELSE 10 * atoi(SubSeq(s, 1, Len(s) - 1)) + DigitValue(Char(s, Len(s)))

\* the chunks of dateTimeFormat, "1-2-2006, 15:04:05", as time.Parse reads it
dateTimeFormat ==
    <<"stdNumMonth", "-", "stdDay", "-", "stdLongYear", ", ",
      "stdHour", ":", "stdZeroMinute", ":", "stdZeroSecond">>

\* getnum(s, fixed): [ok, n, rest]
getnum(s, fixed) ==
    IF ~IsDigit(At(s, 1)) THEN [ok |-> FALSE, n |-> 0, rest |-> s]
    ELSE IF ~IsDigit(At(s, 2))
         THEN IF fixed THEN [ok |-> FALSE, n |-> 0, rest |-> s]
              ELSE [ok |-> TRUE, n |-> atoi(SubSeq(s, 1, 1)),
                    rest |-> SubSeq(s, 2, Len(s))]
         ELSE [ok |-> TRUE, n |-> atoi(SubSeq(s, 1, 2)),
               rest |-> SubSeq(s, 3, Len(s))]

RECURSIVE parseChunks(_, _, _)
\* the loop of time.Parse over the layout from chunk k on; f holds the fields
\* read so far and f.err whether a chunk failed or was out of range
parseChunks(k, value, f) ==
    IF f.err \/ k > Len(dateTimeFormat) THEN [f EXCEPT !.rest = value]
    ELSE LET std == dateTimeFormat[k] IN
      CASE std = "stdNumMonth" ->
             LET g == getnum(value, FALSE) IN
             parseChunks(k + 1, g.rest,
                 [f EXCEPT !.month = g.n,
                           !.err = ~g.ok \/ g.n <= 0 \/ 12 < g.n])
        [] std = "stdDay" ->
             \* any one- or two-digit day is read here; the day is checked
             \* against the month and year once parsing is complete
             LET g == getnum(value, FALSE) IN
             parseChunks(k + 1, g.rest, [f EXCEPT !.day = g.n, !.err = ~g.ok])
        [] std = "stdLongYear" ->
             IF Len(value) < 4 \/ ~IsDigit(At(value, 1))
             THEN [f EXCEPT !.err = TRUE, !.rest = value]
             ELSE parseChunks(k + 1, SubSeq(value, 5, Len(value)),
                      [f EXCEPT !.year = atoi(SubSeq(value, 1, 4))])
        [] std = "stdHour" ->
             LET g == getnum(value, FALSE) IN
             parseChunks(k + 1, g.rest,
                 [f EXCEPT !.hour = g.n,
                           !.err = ~g.ok \/ g.n < 0 \/ 24 <= g.n])
        [] std = "stdZeroMinute" ->
             LET g == getnum(value, TRUE) IN
             parseChunks(k + 1, g.rest,
                 [f EXCEPT !.min = g.n,
                           !.err = ~g.ok \/ g.n < 0 \/ 60 <= g.n])
        [] std = "stdZeroSecond" ->
             LET g == getnum(value, TRUE) IN
             parseChunks(k + 1, g.rest,
                 [f EXCEPT !.sec = g.n,
                           !.err = ~g.ok \/ g.n < 0 \/ 60 <= g.n])
        [] OTHER ->
             \* literal text of the layout must be a prefix of the value
             IF HasPrefix(value, std)
             THEN parseChunks(k + 1, SubSeq(value, Len(std) + 1, Len(value)), f)
             ELSE [f EXCEPT !.err = TRUE, !.rest = value]

\* the fields time.Parse starts from
NoFields(value) ==
    [month |-> 1, day |-> 1, year |-> 1, hour |-> 0, min |-> 0, sec |-> 0,
     err |-> FALSE, rest |-> value]

\* the end of time.Parse: text left over and the day of the month are
\* checked once the layout is consumed
validate(f) ==
    IF f.err \/ Len(f.rest) > 0 \/ f.day < 1 \/ f.day > daysIn(f.month, f.year)
    THEN [err |-> TRUE, t |-> ZeroTime]
    ELSE [err |-> FALSE, t |-> Date(f.year, f.month, f.day, f.hour, f.min, f.sec)]

\* time.Parse(dateTimeFormat, value): [err, t]
timeParse(value) == validate(parseChunks(1, value, NoFields(value)))

--------------------------------------------------------------------------
(* dateTimePattern and regexp.FindStringSubmatch                           *)

Digits(s, p, n) == \A i \in p..(p + n - 1) : IsDigit(At(s, i))

\* \s of the pattern
IsReSpace(c) == c \in {" ", "\t", "\n", "\r", "\f"}

\* the ways dateTimePattern matches s starting exactly at p: a, b are the
\* lengths taken by the two \d{1,2} and w by \s+
matchesAt(s, p) ==
    IF ~IsDigit(At(s, p)) THEN {} ELSE
    {m \in {1, 2} \X {1, 2} \X (1..Len(s)) :
        LET a  == m[1]
            b  == m[2]
            w  == m[3]
            q2 == p + a + 1
            q3 == q2 + b + 1
            q4 == q3 + 5
            q5 == q4 + w
        IN  /\ Digits(s, p, a)   /\ At(s, p + a) = "-"
            /\ Digits(s, q2, b)  /\ At(s, q2 + b) = "-"
            /\ Digits(s, q3, 4)  /\ At(s, q3 + 4) = ","
            /\ \A i \in q4..(q5 - 1) : IsReSpace(At(s, i))
            /\ Digits(s, q5, 2)     /\ At(s, q5 + 2) \in {".", ":"}
            /\ Digits(s, q5 + 3, 2) /\ At(s, q5 + 5) \in {".", ":"}
            /\ Digits(s, q5 + 6, 2)}

\* the submatches of the match of s at p that takes m = <<a, b, w>>
submatches(s, p, m) ==
    LET q2 == p + m[1] + 1
        q3 == p + m[1] + m[2] + 2
        q5 == p + m[1] + m[2] + m[3] + 7
    IN  <<SubSeq(s, p, q5 + 7),
          SubSeq(s, p, p + m[1] - 1),
          SubSeq(s, q2, q2 + m[2] - 1),
          SubSeq(s, q3, q3 + 3),
          SubSeq(s, q5, q5 + 1),
          SubSeq(s, q5 + 3, q5 + 4),
          SubSeq(s, q5 + 6, q5 + 7)>>

Minimum(set) == CHOOSE q \in set : \A r \in set : q <= r

leftmost(s, starts) ==
    IF starts = {} THEN <<>>
    ELSE submatches(s, Minimum(starts),
                    CHOOSE m \in matchesAt(s, Minimum(starts)) : TRUE)

\* re.FindStringSubmatch(s): the leftmost match as <<whole, g1, ..., g6>>,
\* or <<>> when nothing matches
FindStringSubmatch(s) == leftmost(s, {p \in 1..Len(s) : matchesAt(s, p) # {}})

--------------------------------------------------------------------------
(* The filesystem under videosDir and path/filepath                        *)

videosDir == "videos"
videoExt == ".mp4"
inputsFile == "inputs.txt"

\* the working directory filepath.Abs joins relative paths to
Cwd == "/w"

\* the printable ASCII characters (but the backquote) in code order, for
\* comparing strings
Ascii ==
    " !\"#$%&'()*+,-./0123456789:;<=>?@ABCDEFGHIJKLMNOPQRSTUVWXYZ[\\]^_abcdefghijklmnopqrstuvwxyz{|}~"

CharCode(c) == CHOOSE i \in 1..Len(Ascii) : Char(Ascii, i) = c

RECURSIVE StrLess(_, _)
\* a < b on Go strings (byte order)
StrLess(a, b) ==
    IF Len(b) = 0 THEN FALSE
    ELSE IF Len(a) = 0 THEN TRUE
    ELSE IF Char(a, 1) = Char(b, 1)
         THEN StrLess(SubSeq(a, 2, Len(a)), SubSeq(b, 2, Len(b)))
         ELSE CharCode(Char(a, 1)) < CharCode(Char(b, 1))

Upper == "ABCDEFGHIJKLMNOPQRSTUVWXYZ"
Lower == "abcdefghijklmnopqrstuvwxyz"

LowerChar(c) ==
    IF \E i \in 1..Len(Upper) : Char(Upper, i) = c
    THEN Char(Lower, CHOOSE i \in 1..Len(Upper) : Char(Upper, i) = c)
    ELSE c

RECURSIVE ToLower(_)
ToLower(s) ==
    IF Len(s) = 0 THEN ""
    ELSE LowerChar(Char(s, 1)) \o ToLower(SubSeq(s, 2, Len(s)))

\* index of the last "/" of path, 0 when it has none
LastSlash(path) ==
    LET at == {i \in 1..Len(path) : Char(path, i) = "/"}
    IN  IF at = {} THEN 0 ELSE CHOOSE i \in at : \A j \in at : j <= i

\* index of the first "/" of path, Len(path) + 1 when it has none
FirstSlash(path) ==
    LET at == {i \in 1..Len(path) : Char(path, i) = "/"}
    IN  IF at = {} THEN Len(path) + 1 ELSE CHOOSE i \in at : \A j \in at : i <= j

RECURSIVE Base(_)
\* filepath.Base with "/" as the separator
Base(path) ==
    IF Len(path) = 0 THEN "."
    ELSE IF Char(path, Len(path)) = "/"
         THEN IF Len(path) = 1 THEN "/" ELSE Base(SubSeq(path, 1, Len(path) - 1))
         ELSE SubSeq(path, LastSlash(path) + 1, Len(path))

\* filepath.Abs of a relative path
Abs(path) == Cwd \o "/" \o path

RECURSIVE WalkLess(_, _)
\* filepath.Walk visits p before q: the names of each directory are walked
\* in lexical order, so paths compare element by element
WalkLess(p, q) ==
    LET i  == FirstSlash(p)
        j  == FirstSlash(q)
        p1 == SubSeq(p, 1, i - 1)
        q1 == SubSeq(q, 1, j - 1)
    IN  IF p1 # q1 THEN StrLess(p1, q1)
        ELSE IF i > Len(p) THEN j <= Len(q)
        ELSE IF j > Len(q) THEN FALSE
        ELSE WalkLess(SubSeq(p, i + 1, Len(p)), SubSeq(q, j + 1, Len(q)))

\* The entries a videos directory may hold: the path below the working
\* directory and whether info.Mode().IsRegular().
Catalogue ==
    { [path |-> "videos/G5 Flex 12-30-2025, 21.00.00 GMT+1.mp4", regular |-> TRUE],
      [path |-> "videos/G5 Flex 1-1-2026, 03.00.00 GMT+1.mp4",   regular |-> TRUE],
      [path |-> "videos/G5 Flex 1-1-2026, 03:00:00.MP4",         regular |-> TRUE],
      [path |-> "videos/G5 Flex 2-30-2025, 10.00.00.mp4",        regular |-> TRUE],
      [path |-> "videos/G5 Flex 13-1-2025, 00.00.00 - 1-1-2024, 03.00.00.mp4",
                                                                 regular |-> TRUE],
      [path |-> "videos/G5 Flex it's 2-29-2024, 23.59.59.mp4",   regular |-> TRUE],
      [path |-> "videos/old/G5 Flex clip.mp4",                   regular |-> TRUE],
      [path |-> "videos/G5 Flex 1-1-2026, 03.00.00.txt",         regular |-> TRUE],
      [path |-> "videos/G5 Flex 1-1-2025, 24.00.00.mp4",         regular |-> FALSE],
      [path |-> "videos/Door 1-1-2026, 03.00.00.mp4",            regular |-> TRUE] }

\* the directory trees of the model: at most MaxEntries catalogue entries
Trees == {t \in SUBSET Catalogue : Cardinality(t) <= MaxEntries}

RECURSIVE WalkOrder(_)
\* the entries of tree in the order filepath.Walk calls back on them
WalkOrder(tree) ==
    IF tree = {} THEN <<>>
    ELSE LET first == CHOOSE e \in tree :
                         \A o \in tree : o = e \/ WalkLess(e.path, o.path)
         IN  <<first>> \o WalkOrder(tree \ {first})

\* whether the walk callback of findVideoFiles appends this entry
isMatch(e, camera) ==
    /\ e.regular
    /\ HasSuffix(ToLower(e.path), videoExt)
    /\ HasPrefix(Base(e.path), camera)

RECURSIVE collect(_, _)
collect(entries, camera) ==
    IF entries = <<>> THEN <<>>
    ELSE (IF isMatch(Head(entries), camera)
          THEN <<Abs(Head(entries).path)>> ELSE <<>>)
         \o collect(Tail(entries), camera)

\* the files findVideoFiles returns when the walk meets no error
findVideoFiles(tree, camera) == collect(WalkOrder(tree), camera)

--------------------------------------------------------------------------
(* os.Stat and extractDateFromPath                                         *)

StatErr == [err |-> TRUE, modTime |-> ZeroTime]

\* what os.Stat may answer for a file: an error, or one of two
\* modification times (the second is the instant stamped 1-1-2026, 03.00.00)
ModTimes ==
    { [err |-> FALSE, modTime |-> Date(2025, 12, 31, 12, 0, 0)],
      [err |-> FALSE, modTime |-> Date(2026, 1, 1, 3, 0, 0)] }

StatOutcomes == {StatErr} \cup ModTimes

\* fmt.Sprintf("%s-%s-%s, %s:%s:%s", matches[1], ..., matches[6])
dateTimeStr(matches) ==
    matches[2] \o "-" \o matches[3] \o "-" \o matches[4] \o ", "
    \o matches[5] \o ":" \o matches[6] \o ":" \o matches[7]

\* if len(matches) == 7 { t, err := time.Parse(...) }: [err, t]
parseMatches(matches) ==
    IF Len(matches) = 7 THEN timeParse(dateTimeStr(matches))
    ELSE [err |-> TRUE, t |-> ZeroTime]

\* the first half of extractDateFromPath: the instant stamped in the file
\* name, [err, t], err when nothing matches or the match does not parse
parseStamp(filePath) == parseMatches(FindStringSubmatch(Base(filePath)))

\* a directory of maxInsertion + 1 segments whose names hold no stamp
LongNames == <<"a", "b", "c", "d", "e", "f", "g", "h", "i", "j", "k", "l", "m">>
LongTree ==
    { [path |-> "videos/G5 Flex " \o LongNames[i] \o ".mp4", regular |-> TRUE] :
        i \in 1..Len(LongNames) }

\* every path the model hands to extractDateFromPath
KnownPaths == {Abs(e.path) : e \in Catalogue \cup LongTree}

\* parseStamp of every known path, computed once
StampTable == {<<p, parseStamp(p)>> : p \in KnownPaths}

StampOf(filePath) == (CHOOSE row \in StampTable : row[1] = filePath)[2]

\* a fallback that gives up with the zero time when the name does not
\* parse, without asking the filesystem
fallbackNone(parsed, info) == IF ~parsed.err THEN parsed.t ELSE ZeroTime

\* the returns of extractDateFromPath: the parsed instant, else the
\* modification time os.Stat reports (info), else the zero time
fallback(parsed, info) ==
    IF ~parsed.err THEN parsed.t
    ELSE IF ~info.err THEN info.modTime
    ELSE ZeroTime

extractDateFromPath(filePath) == fallback(StampOf(filePath), stat[filePath])

--------------------------------------------------------------------------
(* sort.Slice(files, less): pdqsort_func of the Go library                 *)

\* a less that compares the paths themselves
lessByName(fi, fj) == StrLess(fi, fj)

\* the less closure of main(), on two elements of files
less(fi, fj) == Before(extractDateFromPath(fi), extractDateFromPath(fj))

\* data.Less(i, j) and data.Swap(i, j), with Go's indices from 0
Less(data, i, j) == less(data[i + 1], data[j + 1])
Swap(data, i, j) ==
    [data EXCEPT ![i + 1] = data[j + 1], ![j + 1] = data[i + 1]]

\* slices of at most maxInsertion elements are sorted by insertion
maxInsertion == 12

RECURSIVE insertionInner(_, _, _)
\* for j := i; j > a && data.Less(j, j-1); j-- { data.Swap(j, j-1) }
insertionInner(data, a, j) ==
    IF j > a /\ Less(data, j, j - 1)
    THEN insertionInner(Swap(data, j, j - 1), a, j - 1)
    ELSE data

RECURSIVE insertionSortFrom(_, _, _, _)
insertionSortFrom(data, a, b, i) ==
    IF i < b THEN insertionSortFrom(insertionInner(data, a, i), a, b, i + 1)
    ELSE data

insertionSort_func(data, a, b) == insertionSortFrom(data, a, b, a + 1)

\* order2_func: <<x, y, swaps>> with data[x] <= data[y]
order2_func(data, a, b, swaps) ==
    IF Less(data, b, a) THEN <<b, a, swaps + 1>> ELSE <<a, b, swaps>>

\* the third order2_func of median_func and its return
median3(data, r1, r2) == order2_func(data, r1[1], r2[1], r2[3])

\* the second order2_func of median_func
median2(data, r1, c) == median3(data, r1, order2_func(data, r1[2], c, r1[3]))

\* median_func: <<x, y, swaps>>, y the index of the median of data[a],
\* data[b], data[c]
median_func(data, a, b, c, swaps) ==
    median2(data, order2_func(data, a, b, swaps), c)

pivotOf(m) ==
    [pivot |-> m[2],
     hint  |-> IF m[3] = 0 THEN "increasingHint" ELSE "unknownHint"]

\* choosePivot_func for slices shorter than shortestNinther (50)
choosePivot_func(data, a, b) ==
    IF b - a >= 8
    THEN pivotOf(median_func(data, a + ((b - a) \div 4) * 1,
                             a + ((b - a) \div 4) * 2,
                             a + ((b - a) \div 4) * 3, 0))
    ELSE pivotOf(<<a + ((b - a) \div 4) * 2, a + ((b - a) \div 4) * 2, 0>>)

\* partialInsertionSort_func for slices shorter than shortestShifting (50):
\* it reports whether the slice is sorted already and moves nothing
partialInsertionSort_func(data, a, b) ==
    \A i \in (a + 1)..(b - 1) : ~Less(data, i, i - 1)

RECURSIVE scanUp(_, _, _, _)
\* for i <= j && data.Less(i, a) { i++ }
scanUp(data, a, i, j) ==
    IF i <= j /\ Less(data, i, a) THEN scanUp(data, a, i + 1, j) ELSE i

RECURSIVE scanDownGreater(_, _, _, _)
\* for i <= j && data.Less(a, j) { j-- }
scanDownGreater(data, a, i, j) ==
    IF i <= j /\ Less(data, a, j) THEN scanDownGreater(data, a, i, j - 1) ELSE j

RECURSIVE scanDown(_, _, _, _)
\* for i <= j && !data.Less(j, a) { j-- }
scanDown(data, a, i, j) ==
    IF i <= j /\ ~Less(data, j, a) THEN scanDown(data, a, i, j - 1) ELSE j

RECURSIVE partitionLoop(_, _, _, _)

partitionStep(data, a, i, j) ==
    IF i > j
    THEN [data |-> Swap(data, j, a), mid |-> j, already |-> FALSE]
    ELSE partitionLoop(Swap(data, i, j), a, i + 1, j - 1)

partitionDown(data, a, i, j) == partitionStep(data, a, i, scanDown(data, a, i, j))

\* the for {} loop of partition_func
partitionLoop(data, a, i, j) == partitionDown(data, a, scanUp(data, a, i, j), j)

partitionFirst(data, a, i, j) ==
    IF i > j
    THEN [data |-> Swap(data, j, a), mid |-> j, already |-> TRUE]
    ELSE partitionLoop(Swap(data, i, j), a, i + 1, j - 1)

partitionFirstDown(data, a, b, i) ==
    partitionFirst(data, a, i, scanDownGreater(data, a, i, b - 1))

partitionSwapped(data, a, b) ==
    partitionFirstDown(data, a, b, scanUp(data, a, a + 1, b - 1))

\* partition_func: [data, mid, already]
partition_func(data, a, b, pivot) == partitionSwapped(Swap(data, a, pivot), a, b)

RECURSIVE pdqsort_func(_, _, _)

\* the recursion on the shorter side of the partition, then the loop on the
\* longer side
pdqsortSides(p, a, b) ==
    IF p.mid - a < b - p.mid
    THEN pdqsort_func(pdqsort_func(p.data, a, p.mid), p.mid + 1, b)
    ELSE pdqsort_func(pdqsort_func(p.data, p.mid + 1, b), a, p.mid)

pdqsortPivot(data, a, b, c) ==
    IF c.hint = "increasingHint" /\ partialInsertionSort_func(data, a, b)
    THEN data
    ELSE pdqsortSides(partition_func(data, a, b, c.pivot), a, b)

\* pdqsort_func on data[a:b] for slices of at most maxInsertion + 1
\* elements: such a slice is partitioned at most once, so wasBalanced and
\* wasPartitioned are still true, a = 0, and breakPatterns_func,
\* partitionEqual_func and heapSort_func are never called
pdqsort_func(data, a, b) ==
    IF b - a <= maxInsertion THEN insertionSort_func(data, a, b)
    ELSE pdqsortPivot(data, a, b, choosePivot_func(data, a, b))

\* sort.Slice(x, less)
sortSlice(x) == pdqsort_func(x, 0, Len(x))

--------------------------------------------------------------------------
(* float64 and the flags                                                   *)

\* a float64: a finite value counted in hundredths, an infinity or a NaN
Finite(hundredths) == [kind |-> "finite", v |-> hundredths]
PosInf == [kind |-> "inf", v |-> 1]
NegInf == [kind |-> "inf", v |-> -1]
NaN == [kind |-> "nan", v |-> 0]

\* x < y on float64: false whenever an operand is a NaN
Fless(x, y) ==
    LET cx == IF x.kind = "inf" THEN x.v ELSE 0
        cy == IF y.kind = "inf" THEN y.v ELSE 0
    IN  /\ x.kind # "nan"
        /\ y.kind # "nan"
        /\ \/ cx < cy
           \/ cx = cy /\ x.kind = "finite" /\ x.v < y.v

\* minSpeedFactor = 0.1 and maxSpeedFactor = 1000.0, in hundredths
minSpeedFactor == 10
maxSpeedFactor == 100000

\* the values -speed is given in the model; flag.Float64 parses its
\* argument with strconv.ParseFloat, which reads "NaN" and "Inf" too
Float64Samples ==
    { Finite(-100), Finite(5), Finite(10), Finite(100000), Finite(100001),
      PosInf, NegInf, NaN }

\* the values -camera is given in the model
CameraSamples == {"", "G5 Flex", "Door"}

\* the condition of the speed check of main()
speedRejected(s) ==
    Fless(s, Finite(minSpeedFactor)) \/ Fless(Finite(maxSpeedFactor), s)

\* a check that lets an empty result through
noFilesNever(fs) == FALSE

\* the condition of the empty-result check of main()
noFiles(fs) == Len(fs) = 0

--------------------------------------------------------------------------
(* main()                                                                  *)

Range(f) == {f[i] : i \in DOMAIN f}

NoHistory ==
    [walked |-> FALSE, walkFailed |-> FALSE, created |-> FALSE, ioFault |-> "none", tool |-> "none",
     outputWritten |-> FALSE, removeCalled |-> FALSE]

Exited == pc \in {"Done", "ReportErrorAndExit"}

Init ==
    /\ pc = "ParseInput"
    /\ cameraName \in CameraSamples
    /\ speed \in Float64Samples
    /\ outputFile = ""
    /\ discovered = <<>>
    /\ files = <<>>
    /\ stat = <<>>
    /\ manifestExists = FALSE
    /\ manifestLines = <<>>
    /\ deferred = FALSE
    /\ exitCode = -1                  \* still running
    /\ stderr = <<>>
    /\ hist = NoHistory
    /\ arg = ""
    /\ ret = <<>>

\* exitWithError: the message, then os.Exit(1), which ends the process at
\* once: deferred functions do not run
exitWithError(msg) ==
    /\ stderr' = Append(stderr, "Error: " \o msg)
    /\ exitCode' = 1
    /\ pc' = "ReportErrorAndExit"

\* flag.Parse to the computation of outputFile
ParseInput ==
    /\ pc = "ParseInput"
    /\ IF cameraName = ""
       THEN /\ stderr' = Append(stderr, "Error: -camera flag is required")
            /\ exitCode' = 1
            /\ pc' = "ReportErrorAndExit"
            /\ UNCHANGED outputFile
       ELSE IF speedRejected(speed)
       THEN /\ exitWithError("speed factor must be between 0.1 and 1000.0")
            /\ UNCHANGED outputFile
       ELSE /\ outputFile' = sanitizeFilename(cameraName) \o "_merged_timelapse.mp4"
            /\ pc' = "Discover"
            /\ UNCHANGED <<stderr, exitCode>>
    /\ UNCHANGED <<cameraName, speed, discovered, files, stat, manifestExists,
                   manifestLines, deferred, hist, arg, ret>>

\* files, err := findVideoFiles(*cameraName).  The directory tree, the
\* failure of the walk or of filepath.Abs, and what os.Stat will answer for
\* the files found are the filesystem's choice.
DiscoverIn(trees, outcomes) ==
    /\ pc = "Discover"
    /\ \E tree \in trees, walkErr \in {"none", "walk", "abs"} :
          LET found == findVideoFiles(tree, cameraName) IN
          /\ walkErr = "abs" => found # <<>>
          /\ hist' = [hist EXCEPT !.walked = TRUE,
                                  !.walkFailed = (walkErr # "none")]
          /\ IF walkErr # "none"
             THEN /\ exitWithError("finding video files")
                  /\ UNCHANGED <<discovered, files, stat>>
             ELSE /\ discovered' = found
                  /\ files' = found
                  /\ \E st \in [Range(found) -> outcomes] : stat' = st
                  /\ pc' = "Validate"
                  /\ UNCHANGED <<stderr, exitCode>>
    /\ UNCHANGED <<cameraName, speed, outputFile, manifestExists,
                   manifestLines, deferred, arg, ret>>

Discover == DiscoverIn(Trees, StatOutcomes)

\* if len(files) == 0 { exitWithError(...) }
Validate ==
    /\ pc = "Validate"
    /\ IF noFiles(files)
       THEN exitWithError("no video files found for camera")
       ELSE pc' = "Sequence" /\ UNCHANGED <<stderr, exitCode>>
    /\ UNCHANGED <<cameraName, speed, outputFile, discovered, files, stat,
                   manifestExists, manifestLines, deferred, hist, arg, ret>>

\* sort.Slice(files, less)
Sequence ==
    /\ pc = "Sequence"
    /\ files' = sortSlice(files)
    /\ pc' = "BuildManifest"
    /\ UNCHANGED <<cameraName, speed, outputFile, discovered, stat,
                   manifestExists, manifestLines, deferred, exitCode, stderr,
                   hist, arg, ret>>

\* createInputsFile(files, inputsFile), its error check, and the defer of
\* os.Remove.  fault is the call of createInputsFile that fails, k the line
\* whose write fails.
BuildManifest ==
    /\ pc = "BuildManifest"
    /\ \E fault \in {"none", "create", "write", "close"}, k \in 0..Len(files) :
          /\ (fault = "write") = (k > 0)
          /\ hist' = [hist EXCEPT !.ioFault = fault,
                                  !.created = (fault # "create")]
          /\ CASE fault = "create" ->
                    \* os.Create failed: return err
                    /\ exitWithError("creating inputs file")
                    /\ UNCHANGED <<manifestExists, manifestLines, deferred>>
               [] fault = "write" ->
                    \* the k-th Fprintf failed: return after the deferred
                    \* f.Close(); main() has not deferred os.Remove yet
                    /\ manifestExists' = TRUE
                    /\ manifestLines' =
                           [i \in 1..(k - 1) |-> manifestLine(files[i])]
                    /\ exitWithError("creating inputs file")
                    /\ UNCHANGED deferred
               [] OTHER ->
                    \* return nil; when fault = "close" the deferred
                    \* f.Close() failed and its error was dropped
                    /\ manifestExists' = TRUE
                    /\ manifestLines' =
                           [i \in 1..Len(files) |-> manifestLine(files[i])]
                    /\ deferred' = TRUE
                    /\ pc' = "Invoke"
                    /\ UNCHANGED <<stderr, exitCode>>
    /\ UNCHANGED <<cameraName, speed, outputFile, discovered, files, stat,
                   arg, ret>>

\* runFFmpeg(...) and its error check.  result is what cmd.Run() reports:
\* exit status 0, a non-zero exit status, or a failure to start ffmpeg.
Invoke ==
    /\ pc = "Invoke"
    /\ \E result \in {"ok", "exit", "launch"}, written \in BOOLEAN :
          /\ result = "ok" => written
          /\ result = "launch" => ~written
          /\ hist' = [hist EXCEPT !.tool = result, !.outputWritten = written]
          /\ IF result = "ok"
             THEN pc' = "Cleanup" /\ UNCHANGED <<stderr, exitCode>>
             ELSE exitWithError("running ffmpeg")
    /\ UNCHANGED <<cameraName, speed, outputFile, discovered, files, stat,
                   manifestExists, manifestLines, deferred, arg, ret>>

\* main() returns: the deferred os.Remove(inputsFile) runs, then the
\* process exits with status 0
Cleanup ==
    /\ pc = "Cleanup"
    /\ deferred
    /\ \E removeErr \in BOOLEAN :
          /\ manifestExists' = removeErr
          /\ manifestLines' = IF removeErr THEN manifestLines ELSE <<>>
          /\ stderr' = IF removeErr
                       THEN Append(stderr, "Warning: failed to remove temporary file")
                       ELSE stderr
    /\ hist' = [hist EXCEPT !.removeCalled = TRUE]
    /\ deferred' = FALSE
    /\ exitCode' = 0
    /\ pc' = "Done"
    /\ UNCHANGED <<cameraName, speed, outputFile, discovered, files, stat,
                   arg, ret>>

Next ==
    \/ ParseInput
    \/ Discover
    \/ Validate
    \/ Sequence
    \/ BuildManifest
    \/ Invoke
    \/ Cleanup

Spec == Init /\ [][Next]_vars

--------------------------------------------------------------------------
(* A run over the long directory: the shortest slice sort.Slice partitions *)

InitLong ==
    /\ Init
    /\ cameraName = "G5 Flex"
    /\ speed = Finite(maxSpeedFactor)

DiscoverLong == DiscoverIn({LongTree}, ModTimes)

NextLong ==
    \/ ParseInput
    \/ DiscoverLong
    \/ Validate
    \/ Sequence

SpecLong == InitLong /\ [][NextLong]_vars

--------------------------------------------------------------------------
(* The pure functions on their own: arg is the input, ret the results      *)

Idle ==
    /\ pc = "pure"
    /\ cameraName = ""
    /\ speed = Finite(minSpeedFactor)
    /\ outputFile = ""
    /\ discovered = <<>>
    /\ files = <<>>
    /\ manifestExists = FALSE
    /\ manifestLines = <<>>
    /\ deferred = FALSE
    /\ exitCode = -1
    /\ stderr = <<>>
    /\ hist = NoHistory

\* sanitizeFilename, applied to a name and then to its own result
NameAlphabet == {"a", "\t", "/", "\\", ":", "*", "?", "\"", "<", ">", "|", " "}

InitSanitize ==
    /\ Idle
    /\ stat = <<>>
    /\ arg \in StringsUpTo(NameAlphabet, MaxNameLen)
    /\ ret = <<>>

Sanitize ==
    /\ Len(ret) < 2
    /\ ret' = Append(ret, sanitizeFilename(IF ret = <<>> THEN arg ELSE ret[Len(ret)]))
    /\ UNCHANGED <<runVars, arg>>

SpecSanitize == InitSanitize /\ [][Sanitize]_vars

\* one manifest line, written by createInputsFile and read back
PathAlphabet == {"a", "/", "\\", "'"}

InitManifest ==
    /\ Idle
    /\ stat = <<>>
    /\ arg \in StringsUpTo(PathAlphabet, MaxPathLen)
    /\ ret = <<>>

WriteLine ==
    /\ ret = <<>>
    /\ ret' = <<manifestLine(arg)>>
    /\ UNCHANGED <<runVars, arg>>

ReadLine ==
    /\ Len(ret) = 1
    /\ ret' = Append(ret, decodeLine(ret[1]))
    /\ UNCHANGED <<runVars, arg>>

NextManifest ==
    \/ WriteLine
    \/ ReadLine

SpecManifest == InitManifest /\ [][NextManifest]_vars

\* extractDateFromPath on one path, whatever os.Stat answers for it
InitExtract ==
    /\ Idle
    /\ arg \in KnownPaths
    /\ stat \in [{arg} -> StatOutcomes]
    /\ ret = <<>>

Extract ==
    /\ ret = <<>>
    /\ ret' = <<extractDateFromPath(arg)>>
    /\ UNCHANGED <<runVars, arg>>

SpecExtract == InitExtract /\ [][Extract]_vars

--------------------------------------------------------------------------
(* The claims                                                              *)

\* files has been sorted and not yet been handed on
Sequenced == pc = "BuildManifest"

\* position of file in seq
IndexOf(seq, file) == CHOOSE i \in 1..Len(seq) : seq[i] = file

OrderingKey(file) == extractDateFromPath(file)

\* C1: in every run that reached Invoke, so that the external tool was
\* started, the deferred removal of the manifest has run by the time the
\* process has exited, whether the tool succeeded or failed.
C1_CleanupRunsAfterInvoke ==
    (Exited /\ hist.tool # "none") => hist.removeCalled

\* C2: the sequence handed to the manifest builder is a permutation of the
\* discovered files in non-decreasing order of OrderingKey, whatever the
\* alphabetical order of the names is.
C2_SequencedByOrderingKey ==
    Sequenced =>
        /\ Len(files) = Len(discovered)
        /\ Range(files) = Range(discovered)
        /\ \A i, j \in 1..Len(files) :
              i < j => ~Before(OrderingKey(files[j]), OrderingKey(files[i]))

\* a run where the file stamped 12-30-2025 was discovered after the file
\* stamped 1-1-2026 and is sequenced before it
C2_DecemberBeforeJanuary ==
    /\ Sequenced
    /\ discovered = <<Abs("videos/G5 Flex 1-1-2026, 03.00.00 GMT+1.mp4"),
                      Abs("videos/G5 Flex 12-30-2025, 21.00.00 GMT+1.mp4")>>
    /\ files = <<Abs("videos/G5 Flex 12-30-2025, 21.00.00 GMT+1.mp4"),
                 Abs("videos/G5 Flex 1-1-2026, 03.00.00 GMT+1.mp4")>>

\* whether a float64 lies outside [0.1, 1000.0]
OutsideRange(s) ==
    ~(s.kind = "finite" /\ minSpeedFactor <= s.v /\ s.v <= maxSpeedFactor)

\* C3: with a speed outside [0.1, 1000.0] the run never walks the
\* directory, never creates the manifest and never starts the external
\* tool, and it exits with a non-zero status.
C3_OutOfRangeSpeedRejected ==
    OutsideRange(speed) =>
        /\ pc \in {"ParseInput", "ReportErrorAndExit"}
        /\ ~hist.walked
        /\ ~hist.created
        /\ hist.tool = "none"
        /\ Exited => exitCode # 0

\* discovery succeeded and found no file
EmptyResult == hist.walked /\ ~hist.walkFailed /\ discovered = <<>>

\* C4: when discovery succeeds with zero files the run ends with a non-zero
\* exit status, and it never creates the manifest or the output file nor
\* starts the external tool.
C4_EmptyResultIsFatal ==
    EmptyResult =>
        /\ pc \in {"Validate", "ReportErrorAndExit"}
        /\ Exited => exitCode # 0
        /\ ~hist.created
        /\ ~manifestExists
        /\ ~hist.outputWritten
        /\ hist.tool = "none"

C4_ExitedOnEmptyResult ==
    /\ EmptyResult
    /\ pc = "ReportErrorAndExit"
    /\ exitCode = 1

\* C5: sequencing is stable: of two discovered files with the same
\* OrderingKey, the one discovered earlier comes earlier in the sequence.
C5_SequencingIsStable ==
    Sequenced =>
        \A i, j \in 1..Len(discovered) :
            (i < j /\ OrderingKey(discovered[i]) = OrderingKey(discovered[j]))
                => IndexOf(files, discovered[i]) < IndexOf(files, discovered[j])

\* C6: when a write of a manifest line fails after the manifest was
\* created, the run exits with a non-zero status without starting the
\* external tool, and the manifest file no longer exists at exit.
C6_ManifestRemovedAfterWriteFailure ==
    (Exited /\ hist.ioFault = "write") =>
        /\ exitCode # 0
        /\ hist.tool = "none"
        /\ ~manifestExists

\* C7: when creating, writing or closing the manifest fails, the run ends
\* in ReportErrorAndExit with a non-zero exit status and the external tool
\* is never started.
C7_ManifestFailureIsFatal ==
    hist.ioFault # "none" =>
        /\ pc = "ReportErrorAndExit"
        /\ exitCode # 0
        /\ hist.tool = "none"

\* the calendar: the months of thirty days, February, and the others
MonthLength(month, year) ==
    IF month \in {4, 6, 9, 11} THEN 30
    ELSE IF month = 2
         THEN (IF year % 4 = 0 /\ (year % 100 # 0 \/ year % 400 = 0) THEN 29 ELSE 28)
         ELSE 31

\* the fields of a match, <<month, day, year, hour, minute, second>>
FieldsOf(matches) == [i \in 1..6 |-> atoi(matches[i + 1])]

CalendarValid(f) ==
    /\ f[1] \in 1..12
    /\ f[2] \in 1..MonthLength(f[1], f[3])
    /\ f[4] \in 0..23
    /\ f[5] \in 0..59
    /\ f[6] \in 0..59

\* the key the fallback chain prescribes for a path with the given first
\* match and the given answer of os.Stat
ChainKey(matches, info) ==
    IF matches # <<>> /\ CalendarValid(FieldsOf(matches))
    THEN Date(FieldsOf(matches)[3], FieldsOf(matches)[1], FieldsOf(matches)[2],
              FieldsOf(matches)[4], FieldsOf(matches)[5], FieldsOf(matches)[6])
    ELSE IF ~info.err THEN info.modTime
    ELSE ZeroTime

\* C8: extractDateFromPath always returns a key: the instant of the first
\* date-time match of the base name when that is calendar-valid, otherwise
\* the modification time when os.Stat succeeds, otherwise the zero time.
C8_ExtractionFollowsChain ==
    Len(ret) = 1 =>
        ret[1] = ChainKey(FindStringSubmatch(Base(arg)), stat[arg])

\* a name stamped with the 30th of February, keyed by modification time
C8_InvalidDateFallsBack ==
    /\ Len(ret) = 1
    /\ arg = Abs("videos/G5 Flex 2-30-2025, 10.00.00.mp4")
    /\ ~stat[arg].err
    /\ ret[1] = stat[arg].modTime

\* path with every backslash turned into a forward slash
Slashed(path, decoded) ==
    /\ Len(decoded) = Len(path)
    /\ \A i \in 1..Len(path) :
          Char(decoded, i) = (IF Char(path, i) = "\\" THEN "/" ELSE Char(path, i))

\* C9 as claimed: reading a manifest line back yields exactly the path it
\* was written for, backslashes included.
C9_RoundTripIsExact ==
    Len(ret) = 2 => ret[2] = arg

\* C9 (amended): reading a manifest line back yields the path it was
\* written for with every backslash turned into a forward slash, hence
\* exactly the path when it holds no backslash.
C9_RoundTripUpToSlashes ==
    Len(ret) = 2 =>
        /\ Slashed(arg, ret[2])
        /\ ~Contains(arg, "\\") => ret[2] = arg

\* a path with a single quote and no backslash, read back unchanged
C9_QuotedPathReadBack ==
    /\ Len(ret) = 2
    /\ Contains(arg, "'")
    /\ ~Contains(arg, "\\")
    /\ ret[2] = arg

\* C10: sanitizing a sanitized name changes nothing, and a sanitized name
\* holds none of / \ : * ? " < > | and no space.
C10_SanitizeIsIdempotent ==
    /\ Len(ret) >= 1 =>
          \A c \in {"/", "\\", ":", "*", "?", "\"", "<", ">", "|", " "} :
              ~Contains(ret[1], c)
    /\ Len(ret) = 2 => ret[2] = ret[1]

\* a name with a space and a slash, sanitized twice
C10_SanitizedTwice ==
    /\ Len(ret) = 2
    /\ Contains(arg, " ")
    /\ Contains(arg, "/")
    /\ ret[1] # arg

====
